---- MODULE Spec2Model ----
(***************************************************************************)
(* A model of clinicaltrails.py: the two tools of the ClinicalTrials.gov   *)
(* server (search_clinical_trials_by_NCT, search_clinical_trials_by_       *)
(* keyword) and the helpers they call (request_ct, csv_handler,            *)
(* format_limited_output).                                                 *)
(*                                                                         *)
(* Text is modelled as a sequence of tokens: a token stands for a run of   *)
(* characters that the program never looks inside (a column name, an       *)
(* identifier, a literal fragment of an f-string), and the characters the  *)
(* program does look at ("," and "\n" in a CSV body, "|" and "&" in a URL, *)
(* the digits of a formatted integer) are tokens of their own. String      *)
(* concatenation is \o and an f-string is the concatenation of its parts.  *)
(***************************************************************************)
EXTENDS Integers, Sequences, FiniteSets, TLC

VARIABLES
    pc,           \* position of the invocation: idle, fetch (request sent), done
    op,           \* the tool invoked: "by_NCT" or "by_keyword" ("" when idle)
    arg,          \* nct_ID or keyword of the invocation
    max_studies,  \* max_studies of the invocation (1 in by_NCT, line 164)
    url,          \* the URL the invocation built
    sent,         \* the URLs handed to requests.get during the invocation
    net,          \* what requests.get did for the request
    fetched,      \* what request_ct returned or raised
    result,       \* the string the tool returned
    caught,       \* the exception the tool's except clause caught
    fault,        \* the exception that left the tool uncaught
    fmt_df,       \* format_limited_output applied on its own: df
    fmt_max_rows, \* ... max_rows
    fmt_out,      \* ... its return value
    fmt_pc        \* ... "in" before the call, "out" after it

vars == <<pc, op, arg, max_studies, url, sent, net, fetched, result, caught,
          fault, fmt_df, fmt_max_rows, fmt_out, fmt_pc>>

toolVars == <<pc, op, arg, max_studies, url, sent, net, fetched, result, caught, fault>>
fmtVars == <<fmt_df, fmt_max_rows, fmt_out, fmt_pc>>

(***************************************************************************)
(* Bounds of the model.                                                    *)
(***************************************************************************)
\* data rows after the header in a response body
MaxDataRows == 2
\* rows of a table handed to format_limited_output on its own
MaxFmtRows == 3

(***************************************************************************)
(* Strings.                                                                *)
(***************************************************************************)
Digits == <<"0", "1", "2", "3", "4", "5", "6", "7", "8", "9">>

RECURSIVE NatStr(_)
\* the decimal digits of n >= 0
NatStr(n) == IF n < 10 THEN <<Digits[n + 1]>>
             ELSE NatStr(n \div 10) \o <<Digits[(n % 10) + 1]>>

\* str(n) / f"{n}" of an int
IntStr(n) == IF n < 0 THEN <<"-">> \o NatStr(-n) ELSE NatStr(n)

\* sep.join(parts): parts is a sequence of strings
Join(sep, parts) ==
    LET J[i \in 0..Len(parts)] ==
            IF i = 0 THEN <<>>
            ELSE IF i = 1 THEN parts[1]
            ELSE J[i - 1] \o sep \o parts[i]
    IN J[Len(parts)]

\* s.split(sep) for a one-token separator: n separators give n + 1 pieces,
\* the runs of tokens before, between and after them
Split(s, sep) ==
    LET at == {i \in 1..Len(s) : s[i] = sep}
        n == Cardinality(at)
        \* the position of the k-th separator; 0 and Len(s) + 1 bound the string
        cut[k \in 0..(n + 1)] ==
            IF k = 0 THEN 0
            ELSE IF k = n + 1 THEN Len(s) + 1
            ELSE CHOOSE i \in at : Cardinality({j \in at : j < i}) = k - 1
    IN [k \in 1..(n + 1) |-> SubSeq(s, cut[k - 1] + 1, cut[k] - 1)]

\* s.splitlines(): the pieces between line breaks, no empty piece after a
\* final line break, nothing for the empty string
SplitLines(s) ==
    LET p == Split(s, "\n")
    IN IF p[Len(p)] = <<>> THEN SubSeq(p, 1, Len(p) - 1) ELSE p

\* t occurs in s as a contiguous run
Contains(s, t) ==
    \E i \in 0..(Len(s) - Len(t)) : SubSeq(s, i + 1, i + Len(t)) = t

(***************************************************************************)
(* Exceptions. An exception is its class and its str(); Bases gives the    *)
(* classes an except clause naming them catches.                           *)
(***************************************************************************)
Exc(cls, msg) == [cls |-> cls, msg |-> msg]
NoExc == Exc("", <<>>)

Bases(cls) ==
    CASE cls = "HTTPError" -> {"HTTPError", "RequestException", "Exception"}
      [] cls = "ConnectionError" -> {"ConnectionError", "RequestException", "Exception"}
      [] cls = "ConnectTimeout" ->
            {"ConnectTimeout", "ConnectionError", "Timeout", "RequestException", "Exception"}
      [] cls = "ReadTimeout" -> {"ReadTimeout", "Timeout", "RequestException", "Exception"}
      [] cls = "Timeout" -> {"Timeout", "RequestException", "Exception"}
      [] cls = "TooManyRedirects" -> {"TooManyRedirects", "RequestException", "Exception"}
      [] OTHER -> {cls, "Exception"}

IsInstance(e, cls) == cls \in Bases(e.cls)

Ok(v) == [tag |-> "ok", val |-> v, exc |-> NoExc]
Raise(e) == [tag |-> "raise", val |-> <<>>, exc |-> e]
(***************************************************************************)
(* The HTTP fetcher.                                                       *)
(*                                                                         *)
(* What requests.get does is the environment's choice: it returns a        *)
(* response (status, reason, body bytes) or raises. A body is its text and *)
(* whether the bytes are valid UTF-8.                                      *)
(***************************************************************************)
NetResponse(status, reason, utf8, text) ==
    [tag |-> "response", cls |-> "", msg |-> <<>>, status |-> status,
     reason |-> reason, utf8 |-> utf8, text |-> text]

NetRaise(cls, msg) ==
    [tag |-> "raise", cls |-> cls, msg |-> msg, status |-> 0,
     reason |-> <<>>, utf8 |-> TRUE, text |-> <<>>]

\* response.raise_for_status(): HTTPError for a 4xx or 5xx status, nothing
\* for any other
raise_for_status(n) ==
    IF 400 <= n.status /\ n.status < 600
    THEN Raise(Exc("HTTPError", IntStr(n.status) \o <<" Error: ">> \o n.reason))
    ELSE Ok(n)

\* the try body of request_ct: requests.get, then raise_for_status
request_ct_try(n) ==
    IF n.tag = "raise" THEN Raise(Exc(n.cls, n.msg)) ELSE raise_for_status(n)

\* the except clauses of request_ct, in the order they are written
request_ct_excepts == <<"HTTPError", "ConnectionError", "Timeout", "Exception">>

\* the first except clause that catches e, 0 when none does
FirstHandler(e, clauses) ==
    IF \E i \in 1..Len(clauses) : IsInstance(e, clauses[i])
    THEN CHOOSE i \in 1..Len(clauses) :
            IsInstance(e, clauses[i]) /\ \A j \in 1..(i - 1) : ~IsInstance(e, clauses[j])
    ELSE 0

request_ct(u, n) ==
    LET r == request_ct_try(n)
        h == IF r.tag = "raise" THEN FirstHandler(r.exc, request_ct_excepts) ELSE 0
        c == IF h = 0 THEN "" ELSE request_ct_excepts[h]
    IN IF r.tag = "ok" THEN r
       ELSE IF c = "HTTPError"
       THEN Raise(Exc("HTTPError",
                <<"HTTP Error ">> \o IntStr(n.status) \o <<" for ">> \o u \o <<": ">> \o n.reason))
       ELSE IF c = "ConnectionError"
       THEN Raise(Exc("ConnectionError",
                <<"Couldn't connect to ">> \o u
                \o <<". Check your internet connection or try again later.">>))
       ELSE IF c = "Timeout"
       THEN Raise(Exc("Timeout", <<"Request to ">> \o u \o <<" timed out.">>))
       ELSE IF c = "Exception"
       THEN Raise(Exc("Exception",
                <<"An unexpected error occurred during request to ">> \o u \o <<": ">> \o r.exc.msg))
       ELSE r

(***************************************************************************)
(* The response decoder.                                                   *)
(***************************************************************************)
\* one row of csv.reader(..., delimiter=","): no field for an empty line
csv_row(line) == IF line = <<>> THEN <<>> ELSE Split(line, ",")

\* list(csv.reader(lines, delimiter=","))
csv_reader(lines) == [i \in 1..Len(lines) |-> csv_row(lines[i])]

\* response.content.decode("utf-8")
decode_utf8(n) ==
    IF n.utf8 THEN Ok(n.text)
    ELSE Raise(Exc("UnicodeDecodeError",
            <<"'utf-8' codec can't decode byte 0xff in position 0: invalid start byte">>))

\* csv_handler, given what request_ct did
csv_handler(u, n) ==
    LET response == request_ct(u, n)
        decoded_content == decode_utf8(response.val)
    IN IF response.tag = "raise" THEN response
       ELSE IF decoded_content.tag = "raise" THEN decoded_content
       ELSE Ok(csv_reader(SplitLines(decoded_content.val)))

(***************************************************************************)
(* The schema registry.                                                    *)
(***************************************************************************)
_STUDY_FIELDS_CSV_CONTENT ==
    <<"Column Name", ",", "Included Data Fields", "\n",
       "NCT Number", ",", "NCTId", "\n",
       "Study Title", ",", "BriefTitle", "\n",
       "Study URL", ",", "NCTId", "\n",
       "Acronym", ",", "Acronym", "\n",
       "Study Status", ",", "OverallStatus", "\n",
       "Brief Summary", ",", "BriefSummary", "\n",
       "Study Results", ",", "HasResults", "\n",
       "Conditions", ",", "Condition", "\n",
       "Interventions", ",", "InterventionType", "|", "InterventionName", "\n",
       "Primary Outcome Measures", ",", "PrimaryOutcomeMeasure", "|", "PrimaryOutcomeDescription", "|", "PrimaryOutcomeTimeFrame", "\n",
       "Secondary Outcome Measures", ",", "SecondaryOutcomeMeasure", "|", "SecondaryOutcomeDescription", "|", "SecondaryOutcomeTimeFrame", "\n",
       "Other Outcome Measures", ",", "OtherOutcomeMeasure", "|", "OtherOutcomeDescription", "|", "OtherOutcomeTimeFrame", "\n",
       "Sponsor", ",", "LeadSponsorName", "\n",
       "Collaborators", ",", "CollaboratorName", "\n",
       "Sex", ",", "Sex", "\n",
       "Age", ",", "MinimumAge", "|", "MaximumAge", "|", "StdAge", "\n",
       "Phases", ",", "Phase", "\n",
       "Enrollment", ",", "EnrollmentCount", "\n",
       "Funder Type", ",", "LeadSponsorClass", "\n",
       "Study Type", ",", "StudyType", "\n",
       "Study Design", ",", "DesignAllocation", "|", "DesignInterventionModel", "|", "DesignMasking", "|", "DesignWhoMasked", "|", "DesignPrimaryPurpose", "\n",
       "Other IDs", ",", "OrgStudyId", "|", "SecondaryId", "\n",
       "Start Date", ",", "StartDate", "\n",
       "Primary Completion Date", ",", "PrimaryCompletionDate", "\n",
       "Completion Date", ",", "CompletionDate", "\n",
       "First Posted", ",", "StudyFirstPostDate", "\n",
       "Results First Posted", ",", "ResultsFirstSubmitDate", "\n",
       "Last Update Posted", ",", "LastUpdatePostDate", "\n",
       "Locations", ",", "LocationFacility", "|", "LocationCity", "|", "LocationState", "|", "LocationZip", "|", "LocationCountry", "\n",
       "Study Documents", ",", "NCTId", "|", "LargeDocLabel", "|", "LargeDocFilename", "\n">>

\* csv.DictReader over the embedded table: the "Column Name" cell of every
\* row after the header row (strip() removes nothing from a token)
_valid_csv_column_names ==
    LET rows == csv_reader(SplitLines(_STUDY_FIELDS_CSV_CONTENT))
        k == CHOOSE i \in 1..Len(rows[1]) : rows[1][i] = <<"Column Name">>
    IN [i \in 1..(Len(rows) - 1) |-> rows[i + 1][k]]

_BASE_URL == <<"https://clinicaltrials.gov/api/v2/">>
_JSON == <<"format", "=", "json">>
_CSV == <<"format", "=", "csv">>

SeqToSet(s) == {s[i] : i \in 1..Len(s)}

(***************************************************************************)
(* Tables (pandas.DataFrame). A table is its column labels and its rows, a *)
(* row a sequence of cells, one per column; the index labels are 0, 1, ... *)
(* A cell is a string or None; None is written NoneCell, a value no string *)
(* of the inputs equals.                                                   *)
(***************************************************************************)
NoneCell == <<"<NoneType>">>

DataFrame(columns, rows) == [isnone |-> FALSE, columns |-> columns, rows |-> rows]

\* None where a DataFrame is expected
NoDataFrame == [isnone |-> TRUE, columns |-> <<>>, rows |-> <<>>]

\* df.empty: no rows or no columns
empty(df) == Len(df.rows) = 0 \/ Len(df.columns) = 0

\* the length of the longest row of data
MaxLen(data) ==
    IF data = <<>> THEN 0
    ELSE CHOOSE m \in {Len(data[i]) : i \in 1..Len(data)} :
            \A i \in 1..Len(data) : Len(data[i]) <= m

\* pd.DataFrame.from_records(data, columns=columns) for a non-empty list of
\* lists: rows shorter than the longest are padded with None, and the
\* number of labels must be the length of the longest row. Data of no
\* columns gives a table of no rows.
from_records(data, columns) ==
    LET width == MaxLen(data)
        pad(r) == [j \in 1..width |-> IF j <= Len(r) THEN r[j] ELSE NoneCell]
    IN IF Len(columns) # width
       THEN Raise(Exc("ValueError",
                IntStr(Len(columns)) \o <<" columns passed, passed data had ">>
                \o IntStr(width) \o <<" columns">>))
       ELSE IF width = 0 THEN Ok(DataFrame(columns, <<>>))
       ELSE Ok(DataFrame(columns, [i \in 1..Len(data) |-> pad(data[i])]))

\* the positions of the columns labelled name
ColumnPositions(df, name) == {j \in 1..Len(df.columns) : df.columns[j] = name}

\* (df[name] == value).any() where a truth value is asked of it: KeyError
\* without such a column; with several, df[name] is a table, .any() a Series
\* of several values, and its truth value is ambiguous
column_eq_any(df, name, value) ==
    LET pos == ColumnPositions(df, name)
    IN IF pos = {} THEN Raise(Exc("KeyError", <<"'">> \o name \o <<"'">>))
       ELSE IF Cardinality(pos) > 1
       THEN Raise(Exc("ValueError",
                <<"The truth value of a Series is ambiguous. Use a.empty, a.bool(), a.item(), a.any() or a.all().">>))
       ELSE LET j == CHOOSE k \in pos : TRUE
            IN Ok(\E i \in 1..Len(df.rows) : df.rows[i][j] = value)

\* df[df[name] == value].iloc[0], where column_eq_any gave True
first_row_eq(df, name, value) ==
    LET j == CHOOSE k \in ColumnPositions(df, name) : TRUE
        i == CHOOSE k \in 1..Len(df.rows) :
                /\ df.rows[k][j] = value
                /\ \A l \in 1..(k - 1) : df.rows[l][j] # value
    IN df.rows[i]

\* df.head(n): the first n rows, all but the last -n when n is negative
head(df, n) ==
    LET total == Len(df.rows)
        keep == IF n >= 0 THEN (IF n < total THEN n ELSE total)
                ELSE (IF total + n > 0 THEN total + n ELSE 0)
    IN DataFrame(df.columns, SubSeq(df.rows, 1, keep))

\* one rendered cell
cell_str(c) == IF c = NoneCell THEN <<"None">> ELSE c

\* df.to_string(): a line of column labels, then a line per row with its
\* index label and its cells (the padding that aligns the columns is left
\* out); a table of no rows prints as "Empty DataFrame"
to_string(df) ==
    LET line(i) == IntStr(i - 1) \o <<" ">>
                   \o Join(<<" ">>, [j \in 1..Len(df.rows[i]) |-> cell_str(df.rows[i][j])])
    IN IF Len(df.rows) = 0
       THEN <<"Empty DataFrame", "\n", "Columns: [">> \o Join(<<", ">>, df.columns)
            \o <<"]", "\n", "Index: []">>
       ELSE <<" ">> \o Join(<<" ">>, df.columns) \o <<"\n">>
            \o Join(<<"\n">>, [i \in 1..Len(df.rows) |-> line(i)])

(***************************************************************************)
(* The tabular formatter.                                                  *)
(***************************************************************************)
\* an optional int: None, or n
NoneInt == [none |-> TRUE, n |-> 0]
SomeInt(n) == [none |-> FALSE, n |-> n]

\* bool(max_rows): None and 0 are false
truthy(max_rows) == ~max_rows.none /\ max_rows.n # 0

\* the summary line
metadata(total_rows, rows_shown) ==
    <<"\n\nData summary: Total ">> \o IntStr(total_rows) \o <<" records, showing ">>
    \o IntStr(rows_shown) \o <<" records.">>

\* the branch of line 37: limit the rows
limits(df, max_rows) == truthy(max_rows) /\ max_rows.n < Len(df.rows)

format_limited_output(df, max_rows) ==
    IF df.isnone \/ empty(df) THEN <<"No data available">>
    ELSE LET total_rows == Len(df.rows)
             display_df == IF limits(df, max_rows) THEN head(df, max_rows.n) ELSE df
             rows_shown == IF limits(df, max_rows) THEN max_rows.n ELSE total_rows
         IN to_string(display_df) \o metadata(total_rows, rows_shown)

(***************************************************************************)
(* search_clinical_trials_by_NCT.                                          *)
(***************************************************************************)
\* max_studies of a lookup by identifier
by_NCT_max_studies == 1

\* the URL of lines 166-169
by_NCT_url(nct_ID) ==
    _BASE_URL \o <<"studies", "?">> \o _CSV
    \o <<"&", "markupFormat", "=", "markdown", "&", "query.term", "=">> \o nct_ID
    \o <<"&", "pageSize", "=">> \o IntStr(by_NCT_max_studies)

\* study_row.get(name, default): the row's cell under the label, the default
\* without such a label
get(df, row, name, default) ==
    IF ColumnPositions(df, name) = {} THEN default
    ELSE row[CHOOSE j \in ColumnPositions(df, name) : TRUE]

not_found_in_response(nct_ID) ==
    <<"Study with NCT ID ">> \o nct_ID \o <<" not found in ClinicalTrials.gov API response.">>

not_found_in_structure(nct_ID) ==
    <<"Study with NCT ID ">> \o nct_ID \o <<" not found in API response structure.">>

\* the test of line 177 without its "not"
by_NCT_locate_no_negation(nct_ID, df) ==
    LET found == column_eq_any(df, <<"NCT Number">>, nct_ID)
    IN IF empty(df) THEN Ok(not_found_in_response(nct_ID))
       ELSE IF found.tag = "raise" THEN found
       ELSE IF found.val THEN Ok(not_found_in_response(nct_ID))
       ELSE Ok(format_limited_output(df, NoneInt))

\* lines 177-199, given the table: the string to return, or what is raised
by_NCT_locate(nct_ID, df) ==
    LET found == column_eq_any(df, <<"NCT Number">>, nct_ID)
        study_row == first_row_eq(df, <<"NCT Number">>, nct_ID)
        title_text == get(df, study_row, <<"Study Title">>, <<"No Title Available">>)
        study_url == get(df, study_row, <<"Study URL">>,
                         <<"https://clinicaltrials.gov/study/">> \o nct_ID)
        citation_list == <<title_text \o <<": ">> \o study_url>>
    IN IF empty(df) THEN Ok(not_found_in_response(nct_ID))
       ELSE IF found.tag = "raise" THEN found
       ELSE IF ~found.val THEN Ok(not_found_in_response(nct_ID))
       ELSE Ok(format_limited_output(df, NoneInt))

\* the try block (lines 164-205) from the moment requests.get answers n
by_NCT_try(nct_ID, u, n) ==
    LET study_data_from_api == csv_handler(u, n)
        recs == study_data_from_api.val
        df == from_records(SubSeq(recs, 2, Len(recs)), recs[1])
    IN IF study_data_from_api.tag = "raise" THEN study_data_from_api
       ELSE IF Len(recs) > 1
       THEN (IF df.tag = "raise" THEN df ELSE by_NCT_locate(nct_ID, df.val))
       ELSE Ok(not_found_in_structure(nct_ID))

\* an except clause that names only the errors of the HTTP library
by_NCT_except_requests_only == "RequestException"

\* the class the except clause of line 207 names
by_NCT_except == "Exception"

by_NCT_error_msg(nct_ID, e) ==
    <<"Error fetching study details for NCT ID ">> \o nct_ID \o <<": ">> \o e.msg

(***************************************************************************)
(* search_clinical_trials_by_keyword.                                      *)
(***************************************************************************)
requested_csv_fields ==
    << <<"NCT Number">>, <<"Conditions">>, <<"Study Title">>, <<"Brief Summary">>,
       <<"Study URL">>, <<"Study Status">>, <<"Phases">>, <<"Start Date">>,
       <<"Sponsor">>, <<"Enrollment">>, <<"Study Type">> >>

\* a bound test that lets 0 through
invalid_max_studies_from_zero(m) == m > 1000 \/ m < 0

\* the test of line 248
invalid_max_studies(m) == m > 1000 \/ m < 1

max_studies_error_msg(m) ==
    <<"Error: The number of studies can only be between 1 and 1000. (Requested: ">>
    \o IntStr(m) \o <<")">>

\* the requested fields that are no valid column name, in order (line 254)
invalid_fields ==
    LET bad(i) == requested_csv_fields[i] \notin SeqToSet(_valid_csv_column_names)
        F[i \in 0..Len(requested_csv_fields)] ==
            IF i = 0 THEN <<>>
            ELSE IF bad(i) THEN Append(F[i - 1], requested_csv_fields[i]) ELSE F[i - 1]
    IN F[Len(requested_csv_fields)]

fields_error_msg ==
    <<"Error: One or more requested fields are not valid! Invalid fields: ">>
    \o Join(<<", ">>, invalid_fields) \o <<". Valid fields are: ">>
    \o Join(<<", ">>, _valid_csv_column_names)

\* the requested fields joined with commas
concat_api_fields_commas == Join(<<",">>, requested_csv_fields)

\* line 262
concat_api_fields == Join(<<"|">>, requested_csv_fields)

\* the URL of lines 263-266
by_keyword_url(keyword, m) ==
    _BASE_URL \o <<"studies", "?">> \o _CSV
    \o <<"&", "query.term", "=">> \o keyword
    \o <<"&", "markupFormat", "=", "markdown", "&", "fields", "=">> \o concat_api_fields
    \o <<"&", "pageSize", "=">> \o IntStr(m)

no_studies_found(keyword) ==
    <<"No studies found for keyword: ">> \o keyword
    \o <<". The API returned no data or an unexpected structure.">>

\* the loop of lines 283-295: one citation per row (kept in a local list)
by_keyword_citations(df) ==
    [i \in 1..Len(df.rows) |->
        LET study_row == df.rows[i]
            nct_number == get(df, study_row, <<"NCT Number">>, <<"NCT Number Missing">>)
            title_text == get(df, study_row, <<"Study Title">>, <<"No Title Available">>)
            study_url == get(df, study_row, <<"Study URL">>,
                             <<"https://clinicaltrials.gov/study/">> \o nct_number)
        IN title_text \o <<": ">> \o study_url]

\* the try block with the test of line 274 as "> 0": a header alone counts
\* as data
by_keyword_try_header_as_data(keyword, u, n) ==
    LET results_from_api == csv_handler(u, n)
        recs == results_from_api.val
        df == from_records(SubSeq(recs, 2, Len(recs)), recs[1])
    IN IF results_from_api.tag = "raise" THEN results_from_api
       ELSE IF Len(recs) > 0
       THEN (IF df.tag = "raise" THEN df
             ELSE IF empty(df.val)
             THEN Ok(<<"No studies found for keyword: ">> \o keyword \o <<".">>)
             ELSE Ok(format_limited_output(df.val, NoneInt)))
       ELSE Ok(no_studies_found(keyword))

\* the try block (lines 268-311) from the moment requests.get answers n
by_keyword_try(keyword, u, n) ==
    LET results_from_api == csv_handler(u, n)
        recs == results_from_api.val
        df == from_records(SubSeq(recs, 2, Len(recs)), recs[1])
    IN IF results_from_api.tag = "raise" THEN results_from_api
       ELSE IF Len(recs) > 1
       THEN (IF df.tag = "raise" THEN df
             ELSE IF empty(df.val)
             THEN Ok(<<"No studies found for keyword: ">> \o keyword \o <<".">>)
             ELSE LET citation_list == by_keyword_citations(df.val)
                  IN Ok(format_limited_output(df.val, NoneInt)))
       ELSE Ok(no_studies_found(keyword))

\* the class the except clause of line 313 names
by_keyword_except == "Exception"

by_keyword_error_msg(keyword, e) ==
    <<"Error searching studies by keyword '">> \o keyword \o <<"': ">> \o e.msg

(***************************************************************************)
(* The inputs: what a host passes to the tools and what the network does.  *)
(***************************************************************************)
NctIds == {<<"NCT00000000">>, <<"NCT04280705">>}
Keywords == {<<"cancer">>, <<"asthma">>}
MaxStudiesValues == {-1, 0, 1, 20, 1000, 1001}

\* the sequences over S of length at most k
SeqsUpTo(S, k) == UNION {[1..m -> S] : m \in 0..k}

\* header rows: the identifier column and a title, no identifier column,
\* the identifier column twice, a blank line
HeaderChoices ==
    { << <<"NCT Number">>, <<"Study Title">> >>,
      << <<"Study Title">> >>,
      << <<"NCT Number">>, <<"NCT Number">> >>,
      <<>> }

\* data rows: well-formed rows for either identifier, a short row, a long
\* row, a blank line
DataRowChoices ==
    { << <<"NCT00000000">>, <<"Trial A">> >>,
      << <<"NCT04280705">>, <<"Trial B">> >>,
      << <<"NCT00000000">> >>,
      << <<"NCT04280705">>, <<"Trial B">>, <<"extra">> >>,
      <<>> }

\* a CSV body: every row written with "," between its cells and a line
\* break after it
csv_text(rows) ==
    Join(<<>>, [i \in 1..Len(rows) |-> Join(<<",">>, rows[i]) \o <<"\n">>])

Bodies ==
    {<<>>} \cup { csv_text(<<h>> \o d) : h \in HeaderChoices,
                                        d \in SeqsUpTo(DataRowChoices, MaxDataRows) }

\* what requests.get can do
NetOutcomes ==
    { NetResponse(200, <<"OK">>, TRUE, b) : b \in Bodies }
    \cup { NetResponse(200, <<"OK">>, FALSE, <<>>),
           NetResponse(404, <<"Not Found">>, TRUE, <<>>),
           NetResponse(503, <<"Service Unavailable">>, TRUE, <<>>),
           NetRaise("ConnectionError", <<"Failed to establish a new connection">>),
           NetRaise("ConnectTimeout", <<"Connection to clinicaltrials.gov timed out">>),
           NetRaise("ReadTimeout", <<"Read timed out.">>),
           NetRaise("TooManyRedirects", <<"Exceeded 30 redirects.">>),
           NetRaise("RuntimeError", <<"unexpected">>) }

NoNet == NetRaise("", <<>>)
NotFetched == [tag |-> "none", val |-> <<>>, exc |-> NoExc]

\* a request that is sent again
issue_with_retry(s, u) == Append(Append(s, u), u)

\* requests.get(url, verify=False) is called: one more request on the wire
issue(s, u) == Append(s, u)

(***************************************************************************)
(* The state machine: a host invokes a tool, the request it makes is       *)
(* answered, the tool returns.                                             *)
(***************************************************************************)
ToolIdle ==
    /\ pc = "idle" /\ op = "" /\ arg = <<>> /\ max_studies = 0 /\ url = <<>>
    /\ sent = <<>> /\ net = NoNet /\ fetched = NotFetched /\ result = <<>>
    /\ caught = NoExc /\ fault = NoExc

FmtOff ==
    /\ fmt_df = NoDataFrame /\ fmt_max_rows = NoneInt /\ fmt_out = <<>> /\ fmt_pc = "off"

Init == ToolIdle /\ FmtOff

\* search_clinical_trials_by_NCT(nct_ID) runs up to its request
CallByNCT(nct_ID) ==
    /\ pc = "idle"
    /\ pc' = "fetch"
    /\ op' = "by_NCT"
    /\ arg' = nct_ID
    /\ max_studies' = by_NCT_max_studies
    /\ url' = by_NCT_url(nct_ID)
    /\ sent' = issue(<<>>, by_NCT_url(nct_ID))
    /\ UNCHANGED <<net, fetched, result, caught, fault>>
    /\ UNCHANGED fmtVars

\* the request is answered with n and search_clinical_trials_by_NCT runs to
\* its end
RespondNCT(n) ==
    /\ pc = "fetch" /\ op = "by_NCT"
    /\ \E r \in {by_NCT_try(arg, url, n)} :
          /\ net' = n
          /\ fetched' = request_ct(url, n)
          /\ IF r.tag = "ok"
             THEN result' = r.val /\ caught' = NoExc /\ fault' = NoExc
             ELSE IF IsInstance(r.exc, by_NCT_except)
             THEN result' = by_NCT_error_msg(arg, r.exc) /\ caught' = r.exc /\ fault' = NoExc
             ELSE result' = <<>> /\ caught' = NoExc /\ fault' = r.exc
    /\ pc' = "done"
    /\ UNCHANGED <<op, arg, max_studies, url, sent>>
    /\ UNCHANGED fmtVars

\* search_clinical_trials_by_keyword(keyword, m) runs up to its request, or
\* to its end when it rejects its input
CallByKeyword(keyword, m) ==
    /\ pc = "idle"
    /\ op' = "by_keyword"
    /\ arg' = keyword
    /\ max_studies' = m
    /\ IF invalid_max_studies(m)
       THEN /\ result' = max_studies_error_msg(m)
            /\ pc' = "done"
            /\ UNCHANGED <<url, sent>>
       ELSE IF ~(SeqToSet(requested_csv_fields) \subseteq SeqToSet(_valid_csv_column_names))
       THEN /\ result' = fields_error_msg
            /\ pc' = "done"
            /\ UNCHANGED <<url, sent>>
       ELSE /\ url' = by_keyword_url(keyword, m)
            /\ sent' = issue(<<>>, by_keyword_url(keyword, m))
            /\ pc' = "fetch"
            /\ UNCHANGED result
    /\ UNCHANGED <<net, fetched, caught, fault>>
    /\ UNCHANGED fmtVars

\* the request is answered with n and search_clinical_trials_by_keyword runs
\* to its end
RespondKeyword(n) ==
    /\ pc = "fetch" /\ op = "by_keyword"
    /\ \E r \in {by_keyword_try(arg, url, n)} :
          /\ net' = n
          /\ fetched' = request_ct(url, n)
          /\ IF r.tag = "ok"
             THEN result' = r.val /\ caught' = NoExc /\ fault' = NoExc
             ELSE IF IsInstance(r.exc, by_keyword_except)
             THEN result' = by_keyword_error_msg(arg, r.exc) /\ caught' = r.exc
                  /\ fault' = NoExc
             ELSE result' = <<>> /\ caught' = NoExc /\ fault' = r.exc
    /\ pc' = "done"
    /\ UNCHANGED <<op, arg, max_studies, url, sent>>
    /\ UNCHANGED fmtVars

\* the host has the tool's answer; nothing of the invocation is kept
Return ==
    /\ pc = "done"
    /\ pc' = "idle" /\ op' = "" /\ arg' = <<>> /\ max_studies' = 0 /\ url' = <<>>
    /\ sent' = <<>> /\ net' = NoNet /\ fetched' = NotFetched /\ result' = <<>>
    /\ caught' = NoExc /\ fault' = NoExc
    /\ UNCHANGED fmtVars

Next ==
    \/ \E nct_ID \in NctIds : CallByNCT(nct_ID)
    \/ \E n \in NetOutcomes : RespondNCT(n)
    \/ \E keyword \in Keywords, m \in MaxStudiesValues : CallByKeyword(keyword, m)
    \/ \E n \in NetOutcomes : RespondKeyword(n)
    \/ Return

Spec == Init /\ [][Next]_vars

(***************************************************************************)
(* format_limited_output applied on its own to tables and row limits.      *)
(***************************************************************************)
FmtColumns == << <<"NCT Number">>, <<"Study Title">> >>

FmtRowChoices ==
    { << <<"NCT00000000">>, <<"Trial A">> >>,
      << <<"NCT04280705">>, <<"Trial B">> >> }

FmtTables ==
    {NoDataFrame} \cup { DataFrame(FmtColumns, r) : r \in SeqsUpTo(FmtRowChoices, MaxFmtRows) }

FmtMaxRows == {NoneInt} \cup { SomeInt(k) : k \in 0..(MaxFmtRows + 1) }

FmtInit ==
    /\ ToolIdle
    /\ fmt_df \in FmtTables
    /\ fmt_max_rows \in FmtMaxRows
    /\ fmt_out = <<>>
    /\ fmt_pc = "in"

FormatCall ==
    /\ fmt_pc = "in"
    /\ fmt_out' = format_limited_output(fmt_df, fmt_max_rows)
    /\ fmt_pc' = "out"
    /\ UNCHANGED <<fmt_df, fmt_max_rows>>
    /\ UNCHANGED toolVars

FormatAgain(df, max_rows) ==
    /\ fmt_pc = "out"
    /\ fmt_df' = df
    /\ fmt_max_rows' = max_rows
    /\ fmt_out' = <<>>
    /\ fmt_pc' = "in"
    /\ UNCHANGED toolVars

FmtNext ==
    \/ FormatCall
    \/ \E df \in FmtTables, max_rows \in FmtMaxRows : FormatAgain(df, max_rows)

FmtSpec == FmtInit /\ [][FmtNext]_vars

(***************************************************************************)
(* Reading the state: what the invocation decoded, and what a returned     *)
(* text shows.                                                             *)
(***************************************************************************)
InRange(m) == m \in 1..1000

\* the fetch of the finished invocation succeeded and its body decoded
FetchedAndDecoded == pc = "done" /\ fetched.tag = "ok" /\ net.utf8

\* the decoded rows of the response, header first
Decoded == csv_reader(SplitLines(net.text))

IdColumn == <<"NCT Number">>

HeaderHasIdColumn == Len(Decoded) >= 1 /\ \E j \in 1..Len(Decoded[1]) : Decoded[1][j] = IdColumn

\* some data row holds id under an identifier column of the header
SomeRowHasId(id) ==
    \E i \in 2..Len(Decoded) : \E j \in 1..Len(Decoded[1]) :
        Decoded[1][j] = IdColumn /\ j <= Len(Decoded[i]) /\ Decoded[i][j] = id

\* the header names the identifier column once and the widest data row is
\* as wide as the header
WellFormedTable ==
    /\ Len(Decoded) >= 1
    /\ Cardinality({j \in 1..Len(Decoded[1]) : Decoded[1][j] = IdColumn}) = 1
    /\ Len(Decoded) > 1 =>
          /\ \A i \in 2..Len(Decoded) : Len(Decoded[i]) <= Len(Decoded[1])
          /\ \E i \in 2..Len(Decoded) : Len(Decoded[i]) = Len(Decoded[1])

SummaryToken == "\n\nData summary: Total "

\* the text is a rendered table followed by a summary line
IsTableText(out) == \E p \in 1..Len(out) : out[p] = SummaryToken

SummaryStart(out) == CHOOSE p \in 1..Len(out) : out[p] = SummaryToken

SummaryLine(out) == SubSeq(out, SummaryStart(out), Len(out))

\* the rows of cells the text shows before its summary line
RenderedRows(out) ==
    LET table == SubSeq(out, 1, SummaryStart(out) - 1)
        lines == Split(table, "\n")
    IN IF table[1] = "Empty DataFrame" THEN <<>>
       ELSE [i \in 1..(Len(lines) - 1) |-> Tail(Split(lines[i + 1], " "))]

\* the rows of a table as they are printed
Printed(rows) == [i \in 1..Len(rows) |-> [j \in 1..Len(rows[i]) |-> cell_str(rows[i][j])]]

IsNctError(out) == Len(out) >= 1 /\ out[1] = "Error fetching study details for NCT ID "
IsKeywordError(out) == Len(out) >= 1 /\ out[1] = "Error searching studies by keyword '"

\* the value of the query parameter key in the URL u
QueryParam(u, key) ==
    LET q == CHOOSE i \in 1..Len(u) : u[i] = "?"
        params == Split(SubSeq(u, q + 1, Len(u)), "&")
        k == CHOOSE i \in 1..Len(params) : params[i][1] = key
    IN SubSeq(params[k], 3, Len(params[k]))

\* the field identifiers the embedded table gives for a column name
IncludedDataFields(name) ==
    LET rows == csv_reader(SplitLines(_STUDY_FIELDS_CSV_CONTENT))
        i == CHOOSE k \in 2..Len(rows) : rows[k][1] = name
    IN rows[i][2]

(***************************************************************************)
(* C1                                                                      *)
(***************************************************************************)
\* C1: an invocation of search-by-keyword with maxStudies outside [1, 1000]
\* returns the validation error string and issues no network request.
C1_InvalidBoundNoRequest ==
    (op = "by_keyword" /\ ~InRange(max_studies)) =>
        /\ pc = "done"
        /\ sent = <<>> /\ net = NoNet /\ fetched = NotFetched
        /\ result = <<"Error: The number of studies can only be between 1 and 1000. (Requested: ">>
                    \o IntStr(max_studies) \o <<")">>

C1_Witness ==
    op = "by_keyword" /\ pc = "done" /\ max_studies = 1001 /\ sent = <<>> /\ Len(result) > 0

(***************************************************************************)
(* C2                                                                      *)
(***************************************************************************)
\* what the finished invocation's try block raised, NoExc when it returned
RaisedInTry ==
    LET r == IF op = "by_NCT" THEN by_NCT_try(arg, url, net) ELSE by_keyword_try(arg, url, net)
    IN IF r.tag = "raise" THEN r.exc ELSE NoExc

\* C2: no invocation ends in a propagated fault; a failure raised while
\* fetching, decoding, locating or formatting ends the invocation with an
\* error string that contains the identifier or keyword and the failure's text.
C2_FailuresReturnErrorStrings ==
    (pc = "done" /\ sent # <<>>) =>
        /\ fault = NoExc
        /\ fetched.tag = "raise" => Contains(result, fetched.exc.msg)
        /\ RaisedInTry # NoExc =>
              /\ IF op = "by_NCT" THEN IsNctError(result) ELSE IsKeywordError(result)
              /\ Contains(result, arg)
              /\ Contains(result, RaisedInTry.msg)

\* a malformed table (a data row wider or narrower than the header) in a
\* lookup by identifier
C2_Witness ==
    /\ pc = "done" /\ op = "by_NCT" /\ fetched.tag = "ok"
    /\ caught.cls = "ValueError" /\ IsNctError(result)

(***************************************************************************)
(* C3                                                                      *)
(***************************************************************************)
\* C3: for a non-empty table of total records and maxRows < total, the
\* output shows exactly the first maxRows records in their order and its
\* summary line states Total = total and showing = maxRows, the number of
\* records shown.
C3_TruncationShowsFirstMaxRows ==
    (/\ fmt_pc = "out" /\ ~fmt_df.isnone /\ Len(fmt_df.rows) > 0
     /\ ~fmt_max_rows.none /\ fmt_max_rows.n < Len(fmt_df.rows)) =>
        /\ IsTableText(fmt_out)
        /\ RenderedRows(fmt_out) = Printed(SubSeq(fmt_df.rows, 1, fmt_max_rows.n))
        /\ SummaryLine(fmt_out) = metadata(Len(fmt_df.rows), fmt_max_rows.n)
        /\ IntStr(Len(RenderedRows(fmt_out))) = IntStr(fmt_max_rows.n)

(***************************************************************************)
(* C4                                                                      *)
(***************************************************************************)
C4_Conclusion ==
    /\ caught = NoExc
    /\ result \in {not_found_in_response(arg), not_found_in_structure(arg)}
    /\ Len(Decoded) > 1 =>
          result = <<"Study with NCT ID ">> \o arg
                   \o <<" not found in ClinicalTrials.gov API response.">>

\* C4 as stated: a successfully fetched response whose header has the
\* identifier column (or that is empty) and none of whose data rows holds
\* the requested identifier gives a not-found message naming the identifier,
\* never an error string; with a data row, the ClinicalTrials.gov text.
C4_NotFoundForAnyTable ==
    (/\ FetchedAndDecoded /\ op = "by_NCT"
     /\ (Len(Decoded) = 0 \/ HeaderHasIdColumn)
     /\ ~SomeRowHasId(arg)) => C4_Conclusion

\* C4 amended: the same, for a response that is empty or whose header names
\* the identifier column exactly once and whose widest data row has as many
\* cells as the header.
C4_NotFoundForWellFormedTable ==
    (/\ FetchedAndDecoded /\ op = "by_NCT"
     /\ (Len(Decoded) = 0 \/ WellFormedTable)
     /\ ~SomeRowHasId(arg)) => C4_Conclusion

C4_Witness ==
    /\ FetchedAndDecoded /\ op = "by_NCT" /\ WellFormedTable /\ ~SomeRowHasId(arg)
    /\ Len(Decoded) = 2
    /\ result = not_found_in_response(arg)

(***************************************************************************)
(* C5                                                                      *)
(***************************************************************************)
\* C5: a keyword search with valid maxStudies whose fetch succeeds and whose
\* decoded payload has no data row (at most one decoded row) returns
\* "No studies found for keyword: <keyword>. The API returned no data or an
\* unexpected structure." and no error string.
C5_NoDataRowsNoStudiesFound ==
    (/\ FetchedAndDecoded /\ op = "by_keyword" /\ InRange(max_studies)
     /\ Len(Decoded) <= 1) =>
        /\ caught = NoExc
        /\ result = <<"No studies found for keyword: ">> \o arg
                    \o <<". The API returned no data or an unexpected structure.">>

\* a header-only payload
C5_Witness ==
    /\ FetchedAndDecoded /\ op = "by_keyword" /\ Len(Decoded) = 1 /\ Len(Decoded[1]) = 2
    /\ caught = NoExc /\ Len(result) = 3

(***************************************************************************)
(* C6                                                                      *)
(***************************************************************************)
\* C6 as stated: every invocation makes exactly one outbound network call.
C6_ExactlyOneRequest == pc = "done" => Len(sent) = 1

\* C6 amended: an invocation makes exactly one network call, never repeated
\* whatever its outcome, except a keyword search rejected for its maxStudies,
\* which makes none.
C6_OneRequestUnlessRejected ==
    /\ pc = "fetch" => sent = <<url>>
    /\ pc = "done" =>
          IF op = "by_keyword" /\ ~InRange(max_studies)
          THEN sent = <<>>
          ELSE sent = <<url>>

\* a failed fetch that was not retried
C6_Witness ==
    pc = "done" /\ op = "by_keyword" /\ fetched.tag = "raise" /\ Len(sent) = 1

(***************************************************************************)
(* C7                                                                      *)
(***************************************************************************)
\* C7: the number of study records a successful keyword search shows, and
\* the shown count of its summary line, never exceed maxStudies.
C7_ShownAtMostMaxStudies ==
    (pc = "done" /\ op = "by_keyword" /\ caught = NoExc /\ IsTableText(result)) =>
        /\ Len(RenderedRows(result)) <= max_studies
        /\ \E k \in 0..max_studies :
              SummaryLine(result) = metadata(Len(Decoded) - 1, k)

(***************************************************************************)
(* C8                                                                      *)
(***************************************************************************)
\* the lookup found a row for the identifier: the table was built, the
\* identifier column could be compared, and a row matched
FoundRow ==
    /\ FetchedAndDecoded /\ op = "by_NCT" /\ Len(Decoded) > 1
    /\ from_records(Tail(Decoded), Decoded[1]).tag = "ok"
    /\ column_eq_any(from_records(Tail(Decoded), Decoded[1]).val, IdColumn, arg) = Ok(TRUE)

\* C8: when the lookup finds a row for the identifier, the returned text is
\* the formatting of a one-row table holding only that row, with the
\* summary "Total 1 records, showing 1 records", whatever other rows the
\* response has.
C8_OnlyMatchedRowFormatted ==
    FoundRow =>
        /\ IsTableText(result)
        /\ RenderedRows(result) =
              Printed(<<first_row_eq(from_records(Tail(Decoded), Decoded[1]).val, IdColumn, arg)>>)
        /\ SummaryLine(result) = metadata(1, 1)

(***************************************************************************)
(* C9                                                                      *)
(***************************************************************************)
C9_OtherParams ==
    /\ QueryParam(url, "format") = <<"csv">>
    /\ QueryParam(url, "query.term") = arg
    /\ QueryParam(url, "markupFormat") = <<"markdown">>
    /\ QueryParam(url, "pageSize") = IntStr(max_studies)

\* C9 as stated: the fields parameter of the URL a keyword search requests
\* is the pipe-joined field identifiers the registry maps the requested
\* display names to, with format=csv, query.term=keyword,
\* markupFormat=markdown and pageSize=maxStudies.
C9_FieldsAreApiIdentifiers ==
    (op = "by_keyword" /\ sent # <<>>) =>
        /\ sent = <<url>>
        /\ QueryParam(url, "fields") =
              Join(<<"|">>, [i \in 1..Len(requested_csv_fields) |->
                                IncludedDataFields(requested_csv_fields[i])])
        /\ C9_OtherParams

\* C9 amended: the fields parameter is the pipe-joined requested display
\* names themselves (the CSV column names), with the same other parameters.
C9_FieldsAreDisplayNames ==
    (op = "by_keyword" /\ sent # <<>>) =>
        /\ sent = <<url>>
        /\ QueryParam(url, "fields") =
              <<"NCT Number", "|", "Conditions", "|", "Study Title", "|", "Brief Summary", "|",
                "Study URL", "|", "Study Status", "|", "Phases", "|", "Start Date", "|",
                "Sponsor", "|", "Enrollment", "|", "Study Type">>
        /\ C9_OtherParams

C9_Witness ==
    pc = "fetch" /\ op = "by_keyword" /\ max_studies = 20 /\ sent = <<url>>

(***************************************************************************)
(* C10                                                                     *)
(***************************************************************************)
\* C10: fetch maps each failure to its own kind: every timeout, a timeout
\* while connecting included, to a timeout error naming the URL, every other
\* connection failure to a connection error, every non-2xx status to an HTTP
\* error with status code and URL, anything else to an unexpected error; a
\* success returns the raw response.
C10_EachFailureItsOwnKind ==
    pc = "done" /\ sent # <<>> =>
        IF net.tag = "raise"
        THEN /\ fetched.tag = "raise"
             /\ Contains(fetched.exc.msg, url)
             /\ fetched.exc.cls =
                   IF net.cls \in {"ConnectTimeout", "ReadTimeout", "Timeout"} THEN "Timeout"
                   ELSE IF net.cls = "ConnectionError" THEN "ConnectionError"
                   ELSE "Exception"
        ELSE IF net.status \in 200..299
        THEN fetched = Ok(net)
        ELSE /\ fetched.tag = "raise"
             /\ fetched.exc.cls = "HTTPError"
             /\ Contains(fetched.exc.msg, IntStr(net.status))
             /\ Contains(fetched.exc.msg, url)

====
